---- MODULE Spec2Model ----
(***************************************************************************)
(* Telehealth intake back end (src/backend): the chat conversations kept   *)
(* in MongoDB (routes/chat.py), and the bookings, appointments, invoices   *)
(* and nurse triages kept in Supabase (routes/bookings.py,                 *)
(* routes/appointments.py, routes/nurse_triage.py).                        *)
(*                                                                         *)
(* Every request handler is one action.  The three handlers that read a    *)
(* table and then write to it after a later await (claim_conversation,     *)
(* create_triage_assessment, create_walkin_booking) are two actions, one   *)
(* up to the read and one from the write, so that other requests may run   *)
(* between them as they do between two awaits of the event loop.           *)
(***************************************************************************)
EXTENDS Integers, Sequences, FiniteSets, TLC

\* ---------------------------------------------------------------- bounds
MaxConversations == 1
MaxMessages == 3
MaxBookings == 1
MaxAppointments == 1
MaxQueue == 3
MaxTriages == 2
MaxTime == 11
MaxDays == 1

\* ------------------------------------------------------------- constants
\* Python's None in a column that holds a record id or a number.
NULL == -1
\* Python's None in a column that holds a user id or another string.
NONE == "none"
\* The server clock when the first request arrives (hours; day 0, ten o'clock).
StartTime == 10

\* The identity provider's directory: the callers and the role of each
\* (user_roles; a user without a row is a patient).
Users == {"pat1", "pat2", "nurse1", "doc1", "recep1", "admin1"}

Patients == {"pat1", "pat2"}
\* The staff a conversation is reassigned to in the runs.
Assignees == {"nurse1", "recep1"}

get_user_role(u) ==
    CASE u = "nurse1" -> "nurse"
      [] u = "doc1" -> "doctor"
      [] u = "recep1" -> "receptionist"
      [] u = "admin1" -> "admin"
      [] OTHER -> "patient"

ChatStatus ==
    {"new", "active", "booking_pending", "booked", "consultation_complete", "closed"}

\* A request that carries no bearer token.
Anonymous == "anonymous"

\* ------------------------------------------------------------- variables
VARIABLES
    conversations,   \* MongoDB db.chat_conversations: id (1..Len) -> document
    messages,        \* MongoDB db.chat_messages, in insertion order
    claimLocal,      \* claim_conversation between find_one and update_one: user -> conversation id or NULL
    claimOk,         \* history: the <<user, conversation>> claim calls that returned success
    sb_chat_conversations,  \* Supabase table chat_conversations: id -> row
    sb_chat_messages,       \* Supabase table chat_messages, in insertion order
    bookings,        \* Supabase table bookings: id (1..Len) -> row
    appointments,    \* Supabase table appointments: id (1..Len) -> row
    invoices,        \* Supabase table invoices: id (1..Len) -> row
    nurse_triages,   \* Supabase table nurse_triages: id (1..Len) -> row
    triageLocal,     \* create_triage_assessment between its selects and its insert: user -> request
    walkinLocal,     \* create_walkin_booking at the await of _get_next_queue_position: user -> appointment_data
    now,             \* the server clock, in hours (the day is now \div 24)
    local_offset,    \* hours datetime.now() is ahead of the clock of a scheduled_at read without offset
    outage,          \* the Supabase table that fails at present (NONE: none) and how it fails
    triage_unique,   \* whether nurse_triages.appointment_id is unique in the schema (the schema is not in src/)
    FEE_SCHEDULE,    \* the fee table of the running deployment: service type -> price
    booking_type_default,   \* the appointments.booking_type column default (the schema is not in src/)
    resp             \* the request last worked on and its status code (NULL while it is in flight)

mongoVars == <<conversations, messages>>
supabaseVars == <<sb_chat_conversations, sb_chat_messages, bookings, appointments, invoices,
                  nurse_triages>>
localVars == <<claimLocal, claimOk, triageLocal, walkinLocal>>
envVars == <<FEE_SCHEDULE, booking_type_default, now, triage_unique, outage, local_offset>>
\* Everything but the response: what a rejected request leaves as it was.
stores == <<mongoVars, supabaseVars, localVars, envVars>>
vars == <<conversations, messages, claimLocal, claimOk, sb_chat_conversations,
          sb_chat_messages, bookings, appointments, invoices, nurse_triages,
          triageLocal, walkinLocal, FEE_SCHEDULE, booking_type_default, now,
          triage_unique, outage, local_offset, resp>>

\* Depends(get_current_user): a request without credentials is answered 401
\* before the handler's body runs; otherwise the handler runs.
get_current_user(u, op, target, handler) ==
    IF u = Anonymous
    THEN /\ resp' = [op |-> op, target |-> target, code |-> 401]
         /\ UNCHANGED stores
    ELSE handler

Response(op, target, code) == [op |-> op, target |-> target, code |-> code]

\* update_one({"id": id}, {"$set": fields}): the matching document, if any, is patched.
MongoSet(coll, id, fields) ==
    [i \in DOMAIN coll |->
        IF i = id
        THEN [f \in DOMAIN coll[i] |-> IF f \in DOMAIN fields THEN fields[f] ELSE coll[i][f]]
        ELSE coll[i]]

\* find_one({"id": id}): the document, or None.
MongoFound(coll, id) == id \in DOMAIN coll

\* Supabase PATCH /rest/v1/<table>?id=eq.<id>: the matching row, if any, is patched.
SupabaseUpdate(table, id, data) == MongoSet(table, id, data)

\* Supabase POST /rest/v1/<table>: the row is appended; columns not sent keep their default.
SupabaseInsert(table, defaults, data) ==
    Append(table, [f \in DOMAIN defaults |-> IF f \in DOMAIN data THEN data[f] ELSE defaults[f]])

\* The keys of an update dictionary that the handler has set.
Only(data, keys) == [f \in keys |-> data[f]]

\* Every Supabase table answers.
NoOutage == [table |-> NONE, raises |-> FALSE]

\* The Supabase tables the booking handlers write.
SupabaseTables ==
    {"appointments", "bookings", "invoices", "chat_conversations", "chat_messages"}

\* A request to a table that fails: with raises, httpx raises (the host cannot
\* be reached) and the handler ends there with 500; without, the table answers
\* with an error status, the client logs it and returns None (select: []).
store_fails(table, raises) ==
    /\ outage = NoOutage
    /\ outage' = [table |-> table, raises |-> raises]
    /\ resp' = Response("outage", NULL, 0)
    /\ UNCHANGED <<mongoVars, supabaseVars, localVars, FEE_SCHEDULE, booking_type_default,
                   now, triage_unique, local_offset>>

store_recovers ==
    /\ outage # NoOutage
    /\ outage' = NoOutage
    /\ resp' = Response("outage", NULL, 0)
    /\ UNCHANGED <<mongoVars, supabaseVars, localVars, FEE_SCHEDULE, booking_type_default,
                   now, triage_unique, local_offset>>

\* calls: the tables a handler calls, in the order of its awaits.  The first
\* call that meets the failing table, 0 when none does.
FirstFailure(calls) ==
    IF \E i \in 1..Len(calls) : calls[i] = outage.table
    THEN CHOOSE i \in 1..Len(calls) :
             /\ calls[i] = outage.table
             /\ \A j \in 1..(i - 1) : calls[j] # outage.table
    ELSE 0

\* The handler ends at the failing call with an unhandled exception.
Raised(calls) == outage.raises /\ FirstFailure(calls) > 0

\* The handler's call to the table takes effect: the table answers, and the
\* handler has not ended before the call.
Performs(calls, table) ==
    /\ table # outage.table
    /\ \E i \in 1..Len(calls) :
           calls[i] = table /\ (Raised(calls) => i < FirstFailure(calls))

\* A client-generated id (uuid4) whose insert did not take effect: it names no row.
NoRow == 0

\* FEE_SCHEDULE as written in the source (prices in rand).
ServiceType ==
    {"teleconsultation", "follow_up_0_3", "follow_up_4_7", "script_1_month",
     "script_3_months", "script_6_months", "medical_forms"}

FeeScheduleSource ==
    [s \in ServiceType |->
        CASE s = "teleconsultation" -> 260
          [] s = "follow_up_0_3" -> 0
          [] s = "follow_up_4_7" -> 300
          [] s = "script_1_month" -> 160
          [] s = "script_3_months" -> 300
          [] s = "script_6_months" -> 400
          [] OTHER -> 400]

\* A later deployment's fee table: every price raised, the free follow-up priced too.
FeeScheduleRevised == [s \in ServiceType |-> FeeScheduleSource[s] + 40]

\* No create_triage_assessment, or create_walkin_booking, of the user is in flight.
NoTriageRequest ==
    [appointment_id |-> NULL, patient_id |-> NONE, recommended_action |-> NONE]
NoWalkinRequest ==
    [clinician_id |-> NONE, scheduled_at |-> NULL, queue_position |-> NULL]

Init ==
    /\ conversations = <<>>
    /\ messages = <<>>
    /\ claimLocal = [u \in Users |-> NULL]
    /\ claimOk = {}
    /\ sb_chat_conversations = <<>>
    /\ sb_chat_messages = <<>>
    /\ bookings = <<>>
    /\ appointments = <<>>
    /\ invoices = <<>>
    /\ nurse_triages = <<>>
    /\ triageLocal = [u \in Users |-> NoTriageRequest]
    /\ walkinLocal = [u \in Users |-> NoWalkinRequest]
    /\ FEE_SCHEDULE = FeeScheduleSource
    /\ booking_type_default \in {NONE, "scheduled"}
    /\ now = StartTime
    /\ triage_unique \in BOOLEAN
    /\ outage = NoOutage
    /\ local_offset = 0
    /\ resp = Response("none", NULL, 0)

\* ------------------------------------------------------------------ chat

\* POST /chat/conversations: any authenticated user; the caller is the patient.
create_conversation(u) ==
    /\ Len(conversations) < MaxConversations
    /\ Len(messages) < MaxMessages
    /\ conversations' = Append(conversations,
           [patient_id |-> u, receptionist_id |-> NONE, status |-> "new", booking_id |-> NULL])
    /\ messages' = Append(messages,
           [conversation_id |-> Len(conversations) + 1, sender_role |-> "patient",
            message_type |-> "text"])
    /\ resp' = Response("create_conversation", Len(conversations) + 1, 200)
    /\ UNCHANGED <<supabaseVars, localVars, envVars>>

\* GET /chat/conversations/{id}: the document the Conversation Manager returns.
get_conversation(c) == conversations[c]

\* GET /chat/conversations/{id}/messages: the conversation's messages, oldest first.
get_messages(c) == SelectSeq(messages, LAMBDA m : m.conversation_id = c)

\* POST /chat/conversations/{id}/claim, up to the await of get_user_profile:
\* the role check, find_one and the test of receptionist_id.
claim_read(u, c) ==
    /\ claimLocal[u] = NULL
    /\ IF get_user_role(u) \notin {"admin", "nurse", "doctor"}
       THEN /\ resp' = Response("claim_conversation", c, 403)
            /\ UNCHANGED stores
       ELSE IF ~MongoFound(conversations, c)
       THEN /\ resp' = Response("claim_conversation", c, 404)
            /\ UNCHANGED stores
       ELSE IF conversations[c].receptionist_id # NONE
       THEN /\ resp' = Response("claim_conversation", c, 400)
            /\ UNCHANGED stores
       ELSE /\ claimLocal' = [claimLocal EXCEPT ![u] = c]
            /\ resp' = Response("claim_conversation", c, NULL)
            /\ UNCHANGED <<mongoVars, supabaseVars, envVars, claimOk, triageLocal, walkinLocal>>

\* claim_conversation from update_one on: the $set under the filter {"id": id}
\* alone, the system message and the success response.
claim_write(u) ==
    /\ claimLocal[u] # NULL
    /\ Len(messages) < MaxMessages
    /\ conversations' = MongoSet(conversations, claimLocal[u],
           [receptionist_id |-> u, status |-> "active"])
    /\ messages' = Append(messages,
           [conversation_id |-> claimLocal[u], sender_role |-> "system",
            message_type |-> "system"])
    /\ claimOk' = claimOk \cup {<<u, claimLocal[u]>>}
    /\ claimLocal' = [claimLocal EXCEPT ![u] = NULL]
    /\ resp' = Response("claim_conversation", claimLocal[u], 200)
    /\ UNCHANGED <<supabaseVars, envVars, triageLocal, walkinLocal>>

\* POST /chat/conversations/{id}/reassign: admin only, no guard on the document.
reassign_conversation(u, c, r) ==
    IF get_user_role(u) \notin {"admin"}
    THEN /\ resp' = Response("reassign_conversation", c, 403)
         /\ UNCHANGED stores
    ELSE /\ Len(messages) < MaxMessages
         /\ conversations' = MongoSet(conversations, c, [receptionist_id |-> r])
         /\ messages' = Append(messages,
                [conversation_id |-> c, sender_role |-> "system", message_type |-> "system"])
         /\ resp' = Response("reassign_conversation", c, 200)
         /\ UNCHANGED <<supabaseVars, localVars, envVars>>

\* PATCH /chat/conversations/{id}/status: any ChatStatus is written as given.
update_conversation_status(u, c, s) ==
    IF get_user_role(u) \notin {"admin", "nurse", "doctor"}
    THEN /\ resp' = Response("update_conversation_status", c, 403)
         /\ UNCHANGED stores
    ELSE /\ conversations' = MongoSet(conversations, c, [status |-> s])
         /\ resp' = Response("update_conversation_status", c, 200)
         /\ UNCHANGED <<messages, supabaseVars, localVars, envVars>>

\* POST /chat/conversations/{id}/messages: find_one, the patient's and the
\* staff member's access tests, then insert_one.  The fields the handler then
\* sets on the conversation (last_message, last_message_at, unread_count) are
\* not among those kept here.
send_message(u, c) ==
    IF ~MongoFound(conversations, c)
    THEN /\ resp' = Response("send_message", c, 404)
         /\ UNCHANGED stores
    ELSE IF get_user_role(u) = "patient" /\ conversations[c].patient_id # u
    THEN /\ resp' = Response("send_message", c, 403)
         /\ UNCHANGED stores
    ELSE IF /\ get_user_role(u) # "patient"
            /\ conversations[c].receptionist_id # u
            /\ get_user_role(u) # "admin"
    THEN /\ resp' = Response("send_message", c, 403)
         /\ UNCHANGED stores
    ELSE /\ Len(messages) < MaxMessages
         /\ messages' = Append(messages,
                [conversation_id |-> c, sender_role |-> get_user_role(u),
                 message_type |-> "text"])
         /\ resp' = Response("send_message", c, 200)
         /\ UNCHANGED <<conversations, supabaseVars, localVars, envVars>>

\* -------------------------------------------------------------- bookings

BookingStatus == {"pending", "confirmed", "in_progress", "completed", "cancelled"}
InvoiceStatus == {"pending", "paid", "cancelled"}
PatientBillingType == {"medical_aid", "campus_africa", "university_student", "cash"}

\* profiles: the users that have a profile row.
get_user_profile(id) == id \in Users

\* The columns of an appointments row and the value of each when an insert does
\* not send it.
appointment_defaults ==
    [patient_id |-> NONE, clinician_id |-> NONE, scheduled_at |-> NULL,
     status |-> "pending", booking_type |-> booking_type_default, priority |-> NONE,
     queue_position |-> NULL, created_at |-> NULL, cancelled_at |-> NULL,
     cancelled_by |-> NONE, cancellation_reason |-> NONE, late_cancellation |-> NONE]

booking_defaults ==
    [patient_id |-> NONE, clinician_id |-> NONE, conversation_id |-> NULL,
     appointment_id |-> NULL, scheduled_at |-> NULL, service_type |-> NONE,
     billing_type |-> NONE, status |-> NONE, invoice_id |-> NULL, created_by |-> NONE]

invoice_defaults ==
    [booking_id |-> NULL, patient_id |-> NONE, service_type |-> NONE, amount |-> NULL,
     status |-> NONE, payment_reference |-> NONE, paid_at |-> NONE]

sb_message_defaults ==
    [conversation_id |-> NULL, sender_role |-> NONE, message_type |-> NONE]

system_message(c) ==
    [conversation_id |-> c, sender_role |-> "system", message_type |-> "system"]

invoice_due_cash_only(billing_type, price) == billing_type = "cash"

\* create_booking's test before create_invoice.
invoice_due(billing_type, price) == billing_type = "cash" /\ price > 0

\* create_invoice's row: the amount is the fee table's price at the call.
create_invoice(booking_id, patient_id, service_type, price) ==
    [booking_id |-> booking_id, patient_id |-> patient_id, service_type |-> service_type,
     amount |-> price, status |-> "pending"]

mongo_link_booking_id_only(conversation_id, booking_id) ==
    IF conversation_id # NULL
    THEN MongoSet(conversations, conversation_id, [booking_id |-> booking_id])
    ELSE conversations

\* The MongoDB conversations after create_booking's link step: the handler
\* sends the link to Supabase and has no db.chat_conversations call, so the
\* documents the Conversation Manager reads stay as they are.
mongo_link_booking(conversation_id, booking_id) == conversations

\* POST /bookings: the appointment, the booking, the conversation link and its
\* system message (both sent to Supabase), then the invoice.
create_booking(u, patient_id, clinician_id, conversation_id, scheduled_at, service_type, billing_type) ==
    IF get_user_role(u) \notin {"admin", "nurse", "doctor", "receptionist"}
    THEN /\ resp' = Response("create_booking", NULL, 403)
         /\ UNCHANGED stores
    ELSE IF ~get_user_profile(patient_id) \/ ~get_user_profile(clinician_id)
    THEN /\ resp' = Response("create_booking", NULL, 404)
         /\ UNCHANGED stores
    ELSE IF get_user_role(clinician_id) \notin {"nurse", "doctor"}
    THEN /\ resp' = Response("create_booking", NULL, 400)
         /\ UNCHANGED stores
    ELSE
      LET price == FEE_SCHEDULE[service_type]
          due == invoice_due(billing_type, price)
          calls == <<"appointments", "bookings">>
                   \o (IF conversation_id # NULL
                       THEN <<"chat_conversations", "chat_messages">> ELSE <<>>)
                   \o (IF due THEN <<"invoices", "bookings">> ELSE <<>>)
          \* "if not result: raise HTTPException(500)" ends the handler as well
          failed == Raised(calls) \/ outage.table = "bookings"
          booking_id == Len(bookings) + 1
          appointment_id ==
              IF Performs(calls, "appointments") THEN Len(appointments) + 1 ELSE NULL
          \* create_invoice returns its uuid whatever the insert answered
          invoice_id == IF Performs(calls, "invoices") THEN Len(invoices) + 1 ELSE NoRow
      IN
        /\ Len(bookings) < MaxBookings
        /\ conversation_id # NULL => Len(sb_chat_messages) < MaxMessages
        /\ appointments' =
               IF Performs(calls, "appointments")
               THEN SupabaseInsert(appointments, appointment_defaults,
                        [patient_id |-> patient_id, clinician_id |-> clinician_id,
                         scheduled_at |-> scheduled_at, status |-> "confirmed"])
               ELSE appointments
        /\ bookings' =
               IF Performs(calls, "bookings")
               THEN SupabaseInsert(bookings, booking_defaults,
                        [patient_id |-> patient_id, clinician_id |-> clinician_id,
                         conversation_id |-> conversation_id,
                         appointment_id |-> appointment_id,
                         scheduled_at |-> scheduled_at, service_type |-> service_type,
                         billing_type |-> billing_type, status |-> "confirmed",
                         created_by |-> u,
                         invoice_id |-> IF due /\ ~failed THEN invoice_id ELSE NULL])
               ELSE bookings
        /\ sb_chat_conversations' =
               IF Performs(calls, "bookings") /\ Performs(calls, "chat_conversations")
               THEN SupabaseUpdate(sb_chat_conversations, conversation_id,
                        [status |-> "booked", booking_id |-> booking_id])
               ELSE sb_chat_conversations
        /\ sb_chat_messages' =
               IF Performs(calls, "bookings") /\ Performs(calls, "chat_messages")
               THEN SupabaseInsert(sb_chat_messages, sb_message_defaults,
                        system_message(conversation_id))
               ELSE sb_chat_messages
        /\ invoices' =
               IF Performs(calls, "bookings") /\ Performs(calls, "invoices")
               THEN SupabaseInsert(invoices, invoice_defaults,
                        create_invoice(booking_id, patient_id, service_type, price))
               ELSE invoices
        /\ conversations' = mongo_link_booking(conversation_id, booking_id)
        /\ resp' = IF failed
                   THEN Response("create_booking", NULL, 500)
                   ELSE Response("create_booking", booking_id, 200)
        /\ UNCHANGED <<messages, localVars, envVars, nurse_triages>>

\* PATCH /bookings/{id}: the fields given are written to the booking, and the
\* time, status and clinician to its appointment as well.
update_booking(u, b, status, clinician_id, scheduled_at) ==
    IF get_user_role(u) \notin {"admin", "nurse", "doctor", "receptionist"}
    THEN /\ resp' = Response("update_booking", b, 403)
         /\ UNCHANGED stores
    ELSE IF b \notin DOMAIN bookings
    THEN /\ resp' = Response("update_booking", b, 404)
         /\ UNCHANGED stores
    ELSE
      LET given == (IF scheduled_at # NULL THEN {"scheduled_at"} ELSE {})
                   \cup (IF status # NONE THEN {"status"} ELSE {})
                   \cup (IF clinician_id # NONE THEN {"clinician_id"} ELSE {})
          update_data == Only([scheduled_at |-> scheduled_at, status |-> status,
                               clinician_id |-> clinician_id], given)
      IN
        /\ bookings' = SupabaseUpdate(bookings, b, update_data)
        /\ appointments' =
               IF given # {} /\ bookings[b].appointment_id # NULL
               THEN SupabaseUpdate(appointments, bookings[b].appointment_id, update_data)
               ELSE appointments
        /\ resp' = Response("update_booking", b, 200)
        /\ UNCHANGED <<mongoVars, localVars, envVars, sb_chat_conversations,
                       sb_chat_messages, invoices, nurse_triages>>

\* cancel_booking's update of the linked invoice.
invoice_cancel_data == [status |-> "cancelled"]

\* DELETE /bookings/{id}: no test of the booking's status; the booking, then its
\* appointment, invoice and (in Supabase) conversation, and a system message.
cancel_booking(u, b) ==
    IF outage.table = "bookings" /\ outage.raises
    THEN /\ resp' = Response("cancel_booking", b, 500)
         /\ UNCHANGED stores
    ELSE IF outage.table = "bookings" \/ b \notin DOMAIN bookings
    THEN /\ resp' = Response("cancel_booking", b, 404)
         /\ UNCHANGED stores
    ELSE IF get_user_role(u) = "patient" /\ bookings[b].patient_id # u
    THEN /\ resp' = Response("cancel_booking", b, 403)
         /\ UNCHANGED stores
    ELSE
      LET booking == bookings[b]
          calls == <<"bookings", "bookings">>
                   \o (IF booking.appointment_id # NULL THEN <<"appointments">> ELSE <<>>)
                   \o (IF booking.invoice_id # NULL THEN <<"invoices">> ELSE <<>>)
                   \o (IF booking.conversation_id # NULL
                       THEN <<"chat_conversations", "chat_messages">> ELSE <<>>)
      IN
        /\ booking.conversation_id # NULL => Len(sb_chat_messages) < MaxMessages
        /\ bookings' = SupabaseUpdate(bookings, b, [status |-> "cancelled"])
        /\ appointments' =
               IF Performs(calls, "appointments")
               THEN SupabaseUpdate(appointments, booking.appointment_id,
                                   [status |-> "cancelled"])
               ELSE appointments
        /\ invoices' =
               IF Performs(calls, "invoices")
               THEN SupabaseUpdate(invoices, booking.invoice_id, invoice_cancel_data)
               ELSE invoices
        /\ sb_chat_conversations' =
               IF Performs(calls, "chat_conversations")
               THEN SupabaseUpdate(sb_chat_conversations, booking.conversation_id,
                                   [status |-> "active", booking_id |-> NULL])
               ELSE sb_chat_conversations
        /\ sb_chat_messages' =
               IF Performs(calls, "chat_messages")
               THEN SupabaseInsert(sb_chat_messages, sb_message_defaults,
                                   system_message(booking.conversation_id))
               ELSE sb_chat_messages
        /\ resp' = Response("cancel_booking", b, IF Raised(calls) THEN 500 ELSE 200)
        /\ UNCHANGED <<mongoVars, localVars, envVars, nurse_triages>>

invoice_update_data_zeroing(status, payment_reference) ==
    Only([status |-> status, payment_reference |-> payment_reference, paid_at |-> "set",
          amount |-> 0],
         {"status"} \cup (IF payment_reference # NONE THEN {"payment_reference"} ELSE {})
                    \cup (IF status = "paid" THEN {"paid_at"} ELSE {})
                    \cup (IF status = "cancelled" THEN {"amount"} ELSE {}))

\* update_invoice_status's update dictionary: the status, the payment reference
\* when one is given, paid_at when the status is paid.
invoice_update_data(status, payment_reference) ==
    Only([status |-> status, payment_reference |-> payment_reference, paid_at |-> "set"],
         {"status"} \cup (IF payment_reference # NONE THEN {"payment_reference"} ELSE {})
                    \cup (IF status = "paid" THEN {"paid_at"} ELSE {}))

\* PATCH /bookings/invoices/{id}/status: admin or receptionist.
update_invoice_status(u, i, status, payment_reference) ==
    IF get_user_role(u) \notin {"admin", "receptionist"}
    THEN /\ resp' = Response("update_invoice_status", i, 403)
         /\ UNCHANGED stores
    ELSE /\ invoices' = SupabaseUpdate(invoices, i,
                             invoice_update_data(status, payment_reference))
         /\ resp' = Response("update_invoice_status", i, 200)
         /\ UNCHANGED <<mongoVars, localVars, envVars, sb_chat_conversations,
                        sb_chat_messages, bookings, appointments, nurse_triages>>

\* A deployment with another FEE_SCHEDULE: the module constant is the only place
\* a price comes from, and a release is the only way it changes.
deploy_fee_schedule(table) ==
    /\ FEE_SCHEDULE # table
    /\ FEE_SCHEDULE' = table
    /\ resp' = Response("deploy", NULL, 0)
    /\ UNCHANGED <<mongoVars, supabaseVars, localVars, booking_type_default, now,
                   triage_unique, outage, local_offset>>

\* ---------------------------------------------------------- appointments

AppointmentStatus ==
    {"pending", "confirmed", "in_progress", "completed", "cancelled", "no_show"}

\* The server clock advances between requests.
Tick ==
    /\ now < MaxTime
    /\ now' = now + 1
    /\ resp' = Response("tick", NULL, 0)
    /\ UNCHANGED <<mongoVars, supabaseVars, localVars, FEE_SCHEDULE, booking_type_default,
                   triage_unique, outage, local_offset>>

\* The server clock passes midnight: the first hour of the next day.
next_day ==
    /\ now \div 24 < MaxDays
    /\ now' = (now \div 24 + 1) * 24
    /\ resp' = Response("tick", NULL, 0)
    /\ UNCHANGED <<mongoVars, supabaseVars, localVars, FEE_SCHEDULE, booking_type_default,
                   triage_unique, outage, local_offset>>

\* POST /appointments: a patient's (or admin's) scheduled appointment, pending.
create_appointment(u, clinician_id, scheduled_at) ==
    IF get_user_role(u) \notin {"patient", "admin"}
    THEN /\ resp' = Response("create_appointment", NULL, 403)
         /\ UNCHANGED stores
    ELSE IF ~get_user_profile(clinician_id)
    THEN /\ resp' = Response("create_appointment", NULL, 400)
         /\ UNCHANGED stores
    ELSE /\ appointments' = SupabaseInsert(appointments, appointment_defaults,
                [patient_id |-> u, clinician_id |-> clinician_id,
                 scheduled_at |-> scheduled_at, status |-> "pending",
                 booking_type |-> "scheduled", created_at |-> now])
         /\ resp' = Response("create_appointment", Len(appointments) + 1, 200)
         /\ UNCHANGED <<mongoVars, localVars, envVars, sb_chat_conversations,
                        sb_chat_messages, bookings, invoices, nurse_triages>>

\* _get_next_queue_position: every row of the booking type is counted, of any day.
get_next_queue_position(booking_type) ==
    Cardinality({a \in DOMAIN appointments : appointments[a].booking_type = booking_type}) + 1

\* POST /appointments/walk-in, up to the await of _get_next_queue_position: the
\* role check, the timestamps of appointment_data and the position read.
walkin_read(u, clinician_id) ==
    /\ walkinLocal[u].queue_position = NULL
    /\ IF get_user_role(u) \notin {"patient", "admin", "nurse"}
       THEN /\ resp' = Response("create_walkin_booking", NULL, 403)
            /\ UNCHANGED stores
       ELSE /\ walkinLocal' = [walkinLocal EXCEPT ![u] =
                   [clinician_id |-> clinician_id, scheduled_at |-> now,
                    queue_position |-> get_next_queue_position("walk_in")]]
            /\ resp' = Response("create_walkin_booking", NULL, NULL)
            /\ UNCHANGED <<mongoVars, supabaseVars, envVars, claimLocal, claimOk, triageLocal>>

\* create_walkin_booking from the insert on.
walkin_insert(u) ==
    /\ walkinLocal[u].queue_position # NULL
    /\ appointments' = SupabaseInsert(appointments, appointment_defaults,
           [patient_id |-> u, clinician_id |-> walkinLocal[u].clinician_id,
            scheduled_at |-> walkinLocal[u].scheduled_at, status |-> "pending",
            booking_type |-> "walk_in", priority |-> "normal",
            created_at |-> walkinLocal[u].scheduled_at,
            queue_position |-> walkinLocal[u].queue_position])
    /\ walkinLocal' = [walkinLocal EXCEPT ![u] = NoWalkinRequest]
    /\ resp' = Response("create_walkin_booking", Len(appointments) + 1, 200)
    /\ UNCHANGED <<mongoVars, envVars, claimLocal, claimOk, triageLocal, sb_chat_conversations,
                   sb_chat_messages, bookings, invoices, nurse_triages>>

emergency_queue_position_counted == get_next_queue_position("emergency")

\* create_emergency_booking's queue_position: the front of the queue.
emergency_queue_position == 0

\* POST /appointments/emergency: no clinician, priority emergency, position 0.
create_emergency_booking(u) ==
    IF get_user_role(u) \notin {"patient", "admin", "nurse", "doctor"}
    THEN /\ resp' = Response("create_emergency_booking", NULL, 403)
         /\ UNCHANGED stores
    ELSE /\ appointments' = SupabaseInsert(appointments, appointment_defaults,
                [patient_id |-> u, clinician_id |-> NONE, scheduled_at |-> now,
                 status |-> "pending", booking_type |-> "emergency",
                 priority |-> "emergency", created_at |-> now,
                 queue_position |-> emergency_queue_position])
         /\ resp' = Response("create_emergency_booking", Len(appointments) + 1, 200)
         /\ UNCHANGED <<mongoVars, localVars, envVars, sb_chat_conversations,
                        sb_chat_messages, bookings, invoices, nurse_triages>>

\* The server's time zone as the process finds it at start.  A scheduled_at that
\* comes back from the table with an offset is compared with datetime.now(tz),
\* the same instant on the same clock: offset 0.  One that comes back without
\* (utcnow().isoformat() in a column that keeps no zone) is compared with
\* datetime.now(), the server's local time: the zone's offset from UTC.
set_local_offset(hours) ==
    /\ local_offset # hours
    /\ local_offset' = hours
    /\ resp' = Response("deploy", NULL, 0)
    /\ UNCHANGED <<mongoVars, supabaseVars, localVars, FEE_SCHEDULE, booking_type_default,
                   now, triage_unique, outage>>

\* cancel_appointment_with_reason's late flag: less than two hours from the
\* handler's now to the slot.
late_cancellation(scheduled_at) ==
    IF scheduled_at - (now + local_offset) < 2 THEN "true" ELSE "false"

\* POST /appointments/{id}/cancel: refused for a cancelled or completed
\* appointment, then for a caller who is neither admin, patient nor clinician.
cancel_appointment_with_reason(u, a, reason) ==
    IF a \notin DOMAIN appointments
    THEN /\ resp' = Response("cancel_appointment_with_reason", a, 404)
         /\ UNCHANGED stores
    ELSE IF appointments[a].status \in {"cancelled", "completed"}
    THEN /\ resp' = Response("cancel_appointment_with_reason", a, 400)
         /\ UNCHANGED stores
    ELSE IF ~(get_user_role(u) = "admin" \/ appointments[a].patient_id = u
              \/ appointments[a].clinician_id = u)
    THEN /\ resp' = Response("cancel_appointment_with_reason", a, 403)
         /\ UNCHANGED stores
    ELSE /\ appointments' = SupabaseUpdate(appointments, a,
                [status |-> "cancelled", cancelled_at |-> now, cancelled_by |-> u,
                 cancellation_reason |-> reason,
                 late_cancellation |-> late_cancellation(appointments[a].scheduled_at)])
         /\ resp' = Response("cancel_appointment_with_reason", a, 200)
         /\ UNCHANGED <<mongoVars, localVars, envVars, sb_chat_conversations,
                        sb_chat_messages, bookings, invoices, nurse_triages>>

\* PATCH /appointments/{id}: the status and the time given are written as given.
update_appointment(u, a, status, scheduled_at) ==
    IF a \notin DOMAIN appointments
    THEN /\ resp' = Response("update_appointment", a, 404)
         /\ UNCHANGED stores
    ELSE IF ~(get_user_role(u) = "admin" \/ appointments[a].patient_id = u
              \/ appointments[a].clinician_id = u)
    THEN /\ resp' = Response("update_appointment", a, 403)
         /\ UNCHANGED stores
    ELSE /\ appointments' = SupabaseUpdate(appointments, a,
                Only([status |-> status, scheduled_at |-> scheduled_at],
                     (IF status # NONE THEN {"status"} ELSE {})
                     \cup (IF scheduled_at # NULL THEN {"scheduled_at"} ELSE {})))
         /\ resp' = Response("update_appointment", a, 200)
         /\ UNCHANGED <<mongoVars, localVars, envVars, sb_chat_conversations,
                        sb_chat_messages, bookings, invoices, nurse_triages>>

\* DELETE /appointments/{id} (legacy): no test of the status; admin or the patient.
delete_appointment(u, a) ==
    IF a \notin DOMAIN appointments
    THEN /\ resp' = Response("delete_appointment", a, 404)
         /\ UNCHANGED stores
    ELSE IF ~(get_user_role(u) = "admin" \/ appointments[a].patient_id = u)
    THEN /\ resp' = Response("delete_appointment", a, 403)
         /\ UNCHANGED stores
    ELSE /\ appointments' = SupabaseUpdate(appointments, a, [status |-> "cancelled"])
         /\ resp' = Response("delete_appointment", a, 200)
         /\ UNCHANGED <<mongoVars, localVars, envVars, sb_chat_conversations,
                        sb_chat_messages, bookings, invoices, nurse_triages>>

\* get_today_queue's sort key: 0 for an emergency and 1 for anything else, then
\* the scheduled time.
queue_key_less(x, y) ==
    LET kx == IF x.booking_type = "emergency" THEN 0 ELSE 1
        ky == IF y.booking_type = "emergency" THEN 0 ELSE 1
    IN kx < ky \/ (kx = ky /\ x.scheduled_at < y.scheduled_at)

\* list.sort(key=...): a stable sort of a sequence of appointment ids.
RECURSIVE queue_sort(_)
queue_sort(q) ==
    IF q = <<>> THEN <<>>
    ELSE LET rest == queue_sort(SubSeq(q, 1, Len(q) - 1))
             x == q[Len(q)]
             before == {i \in 1..Len(rest) :
                           \A j \in 1..i : ~queue_key_less(appointments[x], appointments[rest[j]])}
             k == Cardinality(before)
         IN SubSeq(rest, 1, k) \o <<x>> \o SubSeq(rest, k + 1, Len(rest))

\* GET /appointments/queue/today: the caller's pending appointments that are
\* scheduled today or are walk-ins or emergencies, sorted by the key.
get_today_queue(u) ==
    LET ids == [i \in 1..Len(appointments) |-> i]
        today_queue == SelectSeq(ids, LAMBDA a :
            /\ appointments[a].clinician_id = u
            /\ appointments[a].status = "pending"
            /\ \/ appointments[a].scheduled_at \div 24 = now \div 24
               \/ appointments[a].booking_type \in {"walk_in", "emergency"})
    IN queue_sort(today_queue)

\* ---------------------------------------------------------------- triage

triage_defaults ==
    [appointment_id |-> NULL, patient_id |-> NONE, nurse_id |-> NONE,
     recommended_action |-> NONE, ready_for_doctor |-> FALSE]

\* POST /triage, up to the insert: the role check, the appointment's existence
\* and the select that looks for a triage of the appointment.
triage_check(u, a, patient_id, recommended_action) ==
    /\ triageLocal[u].appointment_id = NULL
    /\ IF get_user_role(u) \notin {"nurse", "doctor", "admin"}
       THEN /\ resp' = Response("create_triage_assessment", a, 403)
            /\ UNCHANGED stores
       ELSE IF a \notin DOMAIN appointments
       THEN /\ resp' = Response("create_triage_assessment", a, 404)
            /\ UNCHANGED stores
       ELSE IF \E t \in DOMAIN nurse_triages : nurse_triages[t].appointment_id = a
       THEN /\ resp' = Response("create_triage_assessment", a, 400)
            /\ UNCHANGED stores
       ELSE /\ triageLocal' = [triageLocal EXCEPT ![u] =
                   [appointment_id |-> a, patient_id |-> patient_id,
                    recommended_action |-> recommended_action]]
            /\ resp' = Response("create_triage_assessment", a, NULL)
            /\ UNCHANGED <<mongoVars, supabaseVars, envVars, claimLocal, claimOk, walkinLocal>>

triage_insert_confirming(u) ==
    LET data == triageLocal[u]
        refused == /\ triage_unique
                   /\ \E t \in DOMAIN nurse_triages :
                          nurse_triages[t].appointment_id = data.appointment_id
    IN
      /\ data.appointment_id # NULL
      /\ triageLocal' = [triageLocal EXCEPT ![u] = NoTriageRequest]
      /\ IF refused
         THEN /\ resp' = Response("create_triage_assessment", data.appointment_id, 500)
              /\ UNCHANGED <<mongoVars, supabaseVars, envVars, claimLocal, claimOk, walkinLocal>>
         ELSE /\ nurse_triages' = SupabaseInsert(nurse_triages, triage_defaults,
                     [appointment_id |-> data.appointment_id, patient_id |-> data.patient_id,
                      nurse_id |-> u, recommended_action |-> data.recommended_action,
                      ready_for_doctor |-> data.recommended_action = "proceed_to_doctor"])
              /\ appointments' =
                     SupabaseUpdate(appointments, data.appointment_id,
                                    [status |-> "confirmed"])
              /\ resp' = Response("create_triage_assessment", data.appointment_id, 200)
              /\ UNCHANGED <<mongoVars, envVars, claimLocal, claimOk, walkinLocal,
                             sb_chat_conversations, sb_chat_messages, bookings, invoices>>

\* create_triage_assessment from the insert on: the record, and the appointment
\* set to confirmed when the action is proceed_to_doctor.  An insert the schema
\* refuses returns None and the handler answers 500.
triage_insert(u) ==
    LET data == triageLocal[u]
        refused == /\ triage_unique
                   /\ \E t \in DOMAIN nurse_triages :
                          nurse_triages[t].appointment_id = data.appointment_id
    IN
      /\ data.appointment_id # NULL
      /\ triageLocal' = [triageLocal EXCEPT ![u] = NoTriageRequest]
      /\ IF refused
         THEN /\ resp' = Response("create_triage_assessment", data.appointment_id, 500)
              /\ UNCHANGED <<mongoVars, supabaseVars, envVars, claimLocal, claimOk, walkinLocal>>
         ELSE /\ nurse_triages' = SupabaseInsert(nurse_triages, triage_defaults,
                     [appointment_id |-> data.appointment_id, patient_id |-> data.patient_id,
                      nurse_id |-> u, recommended_action |-> data.recommended_action,
                      ready_for_doctor |-> data.recommended_action = "proceed_to_doctor"])
              /\ appointments' =
                     IF data.recommended_action = "proceed_to_doctor"
                     THEN SupabaseUpdate(appointments, data.appointment_id,
                                         [status |-> "confirmed"])
                     ELSE appointments
              /\ resp' = Response("create_triage_assessment", data.appointment_id, 200)
              /\ UNCHANGED <<mongoVars, envVars, claimLocal, claimOk, walkinLocal,
                             sb_chat_conversations, sb_chat_messages, bookings, invoices>>

triage_update_data_action_only(recommended_action) ==
    Only([recommended_action |-> recommended_action],
         IF recommended_action # NONE THEN {"recommended_action"} ELSE {})

\* update_triage_assessment's update dictionary: the recommended action, when
\* one is given, and ready_for_doctor computed from it.
triage_update_data(recommended_action) ==
    Only([recommended_action |-> recommended_action,
          ready_for_doctor |-> recommended_action = "proceed_to_doctor"],
         IF recommended_action # NONE
         THEN {"recommended_action", "ready_for_doctor"} ELSE {})

update_triage_assessment_write_first(u, t, recommended_action) ==
    IF get_user_role(u) \notin {"nurse", "doctor", "admin"}
    THEN /\ resp' = Response("update_triage_assessment", t, 403)
         /\ UNCHANGED stores
    ELSE IF t \notin DOMAIN nurse_triages
    THEN /\ resp' = Response("update_triage_assessment", t, 404)
         /\ UNCHANGED stores
    ELSE /\ nurse_triages' = SupabaseUpdate(nurse_triages, t,
                                         triage_update_data(recommended_action))
         /\ resp' = Response("update_triage_assessment", t,
                IF get_user_role(u) \notin {"admin"} /\ nurse_triages[t].nurse_id # u
                THEN 403 ELSE 200)
         /\ UNCHANGED <<mongoVars, localVars, envVars, sb_chat_conversations,
                        sb_chat_messages, bookings, appointments, invoices>>

\* PATCH /triage/{id}: the triaging nurse or an admin; ready_for_doctor follows
\* the recommended action when one is given.  The appointment is not written.
update_triage_assessment(u, t, recommended_action) ==
    IF get_user_role(u) \notin {"nurse", "doctor", "admin"}
    THEN /\ resp' = Response("update_triage_assessment", t, 403)
         /\ UNCHANGED stores
    ELSE IF t \notin DOMAIN nurse_triages
    THEN /\ resp' = Response("update_triage_assessment", t, 404)
         /\ UNCHANGED stores
    ELSE IF get_user_role(u) \notin {"admin"} /\ nurse_triages[t].nurse_id # u
    THEN /\ resp' = Response("update_triage_assessment", t, 403)
         /\ UNCHANGED stores
    ELSE /\ nurse_triages' = SupabaseUpdate(nurse_triages, t,
                                         triage_update_data(recommended_action))
         /\ resp' = Response("update_triage_assessment", t, 200)
         /\ UNCHANGED <<mongoVars, localVars, envVars, sb_chat_conversations,
                        sb_chat_messages, bookings, appointments, invoices>>

\* GET /triage/ready-for-doctor/list: the triage records with ready_for_doctor
\* true, oldest first, whose appointment exists and is neither completed nor
\* cancelled when the list is read.
get_patients_ready_for_doctor ==
    SelectSeq([t \in 1..Len(nurse_triages) |-> t], LAMBDA t :
        /\ nurse_triages[t].ready_for_doctor
        /\ nurse_triages[t].appointment_id \in DOMAIN appointments
        /\ appointments[nurse_triages[t].appointment_id].status
               \notin {"completed", "cancelled"})

ConversationIds == 1..MaxConversations

NextChat ==
    \/ \E u \in Patients : create_conversation(u)
    \/ \E u \in Users, c \in ConversationIds : claim_read(u, c)
    \/ \E u \in Users : claim_write(u)
    \/ \E u \in Users, c \in ConversationIds, r \in Assignees : reassign_conversation(u, c, r)
    \/ \E u \in Users, c \in ConversationIds, s \in ChatStatus :
           update_conversation_status(u, c, s)

SpecChat == Init /\ [][NextChat]_vars

\* ------------------------------------------------------- specifications
\* The inputs of the runs: small sets that reach every branch of each handler.
BookingIds == 1..MaxBookings
InvoiceIds == 1..MaxBookings
BookedServices == {"teleconsultation", "follow_up_0_3"}
BookedBilling == {"cash", "medical_aid"}
BookedPatients == {"pat1", "nobody"}
BookedClinicians == {"nurse1", "recep1"}
BookingTimes == {11}

\* Conversation, booking and cancellation: the chat handlers a booking follows,
\* and the handlers that write bookings and the records linked to them.
NextBooking ==
    \/ \E u \in {"pat1"} : create_conversation(u)
    \/ \E u \in {"nurse1", "recep1"}, c \in ConversationIds : claim_read(u, c)
    \/ \E u \in {"nurse1"} : claim_write(u)
    \/ \E u \in {"pat1", "recep1"}, p \in BookedPatients, cl \in BookedClinicians,
          c \in ConversationIds \cup {NULL}, t \in BookingTimes,
          s \in BookedServices, bt \in BookedBilling :
           create_booking(u, p, cl, c, t, s, bt)
    \/ \E u \in {"pat1", "recep1"}, b \in BookingIds,
          st \in {NONE, "completed", "cancelled"}, cl \in {NONE, "doc1"}, t \in {NULL} :
           update_booking(u, b, st, cl, t)
    \/ \E u \in {"pat1", "pat2", "recep1"}, b \in BookingIds : cancel_booking(u, b)

SpecBooking == Init /\ [][NextBooking]_vars

\* Invoices: every handler that writes the invoices table, and the fee table's
\* change between deployments.
NextInvoice ==
    \/ \E u \in {"pat1", "recep1"}, p \in BookedPatients, cl \in BookedClinicians,
          c \in {NULL}, t \in BookingTimes, s \in BookedServices, bt \in BookedBilling :
           create_booking(u, p, cl, c, t, s, bt)
    \/ \E u \in {"pat1", "recep1"}, b \in BookingIds,
          st \in {NONE, "completed", "cancelled"}, cl \in {NONE}, t \in {NULL, 30} :
           update_booking(u, b, st, cl, t)
    \/ \E u \in {"pat2", "recep1"}, b \in BookingIds : cancel_booking(u, b)
    \/ \E u \in {"nurse1", "recep1"}, i \in InvoiceIds, st \in InvoiceStatus,
          ref \in {NONE, "ref"} :
           update_invoice_status(u, i, st, ref)
    \/ \E table \in {FeeScheduleSource, FeeScheduleRevised} : deploy_fee_schedule(table)

SpecInvoice == Init /\ [][NextInvoice]_vars

\* Triage: the handlers that write an appointment's status and the triage
\* handlers.
AppointmentIds == 1..MaxAppointments
TriageIds == 1..MaxTriages
RecommendedActions == {"proceed_to_doctor", "follow_up"}

NextTriage ==
    \/ \E u \in {"pat1", "nurse1"}, cl \in {"doc1", "nobody"}, t \in {13} :
           /\ Len(appointments) < MaxAppointments
           /\ create_appointment(u, cl, t)
    \/ \E u \in {"recep1"}, p \in {"pat1"}, cl \in {"doc1"}, c \in {NULL}, t \in {13},
          s \in {"teleconsultation"}, bt \in {"medical_aid"} :
           /\ Len(appointments) < MaxAppointments
           /\ create_booking(u, p, cl, c, t, s, bt)
    \/ \E u \in {"recep1"}, b \in BookingIds, st \in {"pending", "confirmed"},
          cl \in {NONE}, t \in {NULL} :
           update_booking(u, b, st, cl, t)
    \/ \E u \in {"pat1", "pat2"}, a \in AppointmentIds, st \in {"pending", "confirmed"},
          t \in {NULL} :
           update_appointment(u, a, st, t)
    \/ \E u \in {"nurse1", "doc1", "pat1"}, a \in AppointmentIds, p \in {"pat1"},
          ra \in RecommendedActions :
           /\ Len(nurse_triages) < MaxTriages
           /\ triage_check(u, a, p, ra)
    \/ \E u \in {"nurse1", "doc1"} :
           /\ Len(nurse_triages) < MaxTriages
           /\ triage_insert(u)
    \/ \E u \in {"nurse1", "doc1", "pat1"}, t \in TriageIds,
          ra \in RecommendedActions \cup {NONE} :
           update_triage_assessment(u, t, ra)

SpecTriage == Init /\ [][NextTriage]_vars

\* The queue: the three ways an appointment enters it, the update that takes
\* one out of it or moves it to another day, and the clock.
QueueIds == 1..MaxQueue
ScheduledTimes == {9, 13}

NextQueue ==
    \/ Tick
    \/ \E u \in {"pat1"}, cl \in {"nurse1"}, t \in ScheduledTimes :
           /\ Len(appointments) < MaxQueue
           /\ create_appointment(u, cl, t)
    \/ \E u \in {"pat1", "doc1"}, cl \in {"nurse1"} :
           /\ Len(appointments) < MaxQueue
           /\ walkin_read(u, cl)
    \/ \E u \in {"pat1"} :
           /\ Len(appointments) < MaxQueue
           /\ walkin_insert(u)
    \/ \E u \in {"pat1", "recep1"} :
           /\ Len(appointments) < MaxQueue
           /\ create_emergency_booking(u)
    \/ \E u \in {"pat1"}, a \in QueueIds, st \in {NONE, "completed"}, t \in {NULL, 34} :
           /\ st = NONE <=> t # NULL
           /\ update_appointment(u, a, st, t)

SpecQueue == Init /\ [][NextQueue]_vars

\* Cancellation of appointments: both cancelling handlers, the update that
\* completes or moves an appointment, and the clock.
NextCancellation ==
    \/ Tick
    \/ \E u \in {"pat1", "nurse1"}, cl \in {"nurse1"}, t \in {11, 13} :
           /\ Len(appointments) < MaxAppointments
           /\ create_appointment(u, cl, t)
    \/ \E u \in {"pat1", "pat2", "nurse1"}, a \in AppointmentIds,
          reason \in {"patient_request"} :
           cancel_appointment_with_reason(u, a, reason)
    \/ \E u \in {"pat1", "pat2"}, a \in AppointmentIds, st \in {NONE, "completed", "pending"},
          t \in {NULL, 34} :
           update_appointment(u, a, st, t)
    \/ \E u \in {"pat1", "pat2", "admin1"}, a \in AppointmentIds : delete_appointment(u, a)

SpecCancellation == Init /\ [][NextCancellation]_vars

\* Late cancellations: the handlers of SpecCancellation on servers of either
\* time zone.
LocalOffsets == {0, 2}

NextLate ==
    \/ NextCancellation
    \/ \E hours \in LocalOffsets : set_local_offset(hours)

SpecLate == Init /\ [][NextLate]_vars

\* Walk-ins over several days: one patient's walk-in requests, emergencies and
\* midnight.
NextDay ==
    \/ next_day
    \/ \E u \in {"pat1", "recep1"}, cl \in {"nurse1", NONE} :
           /\ Len(appointments) < MaxQueue
           /\ walkin_read(u, cl)
    \/ \E u \in {"pat1"} :
           /\ Len(appointments) < MaxQueue
           /\ walkin_insert(u)
    \/ \E u \in {"pat1", "recep1"} :
           /\ Len(appointments) < MaxQueue
           /\ create_emergency_booking(u)

SpecDay == Init /\ [][NextDay]_vars

\* The doctor's prepared list: the triage handlers and the handlers that end or
\* reopen an appointment.
NextReady ==
    \/ \E u \in {"pat1"}, cl \in {"doc1"}, t \in {13} :
           /\ Len(appointments) < MaxAppointments
           /\ create_appointment(u, cl, t)
    \/ \E u \in {"nurse1", "doc1"}, a \in AppointmentIds, p \in {"pat1"},
          ra \in RecommendedActions :
           /\ Len(nurse_triages) < MaxTriages
           /\ triage_check(u, a, p, ra)
    \/ \E u \in {"nurse1", "doc1"} :
           /\ Len(nurse_triages) < MaxTriages
           /\ triage_insert(u)
    \/ \E u \in {"nurse1", "doc1"}, t \in TriageIds, ra \in RecommendedActions \cup {NONE} :
           update_triage_assessment(u, t, ra)
    \/ \E u \in {"pat1"}, a \in AppointmentIds, st \in {"pending", "completed"}, t \in {NULL} :
           update_appointment(u, a, st, t)
    \/ \E u \in {"pat1", "pat2"}, a \in AppointmentIds, reason \in {"patient_request"} :
           cancel_appointment_with_reason(u, a, reason)

SpecReady == Init /\ [][NextReady]_vars

\* Walk-ins and emergencies: concurrent walk-in requests, emergencies and the
\* update that completes an appointment.
NextWalkin ==
    \/ \E u \in {"pat1", "pat2", "recep1"}, cl \in {"nurse1"} :
           /\ Len(appointments) < MaxQueue
           /\ walkin_read(u, cl)
    \/ \E u \in {"pat1", "pat2"} :
           /\ Len(appointments) < MaxQueue
           /\ walkin_insert(u)
    \/ \E u \in {"pat1", "recep1"} :
           /\ Len(appointments) < MaxQueue
           /\ create_emergency_booking(u)
    \/ \E u \in {"pat1"}, a \in QueueIds, st \in {"completed"}, t \in {NULL} :
           update_appointment(u, a, st, t)

SpecWalkin == Init /\ [][NextWalkin]_vars

\* Conversations: every handler that writes a conversation's status,
\* receptionist or booking link.
NextConversation ==
    \/ \E u \in {"pat1"} : create_conversation(u)
    \/ \E u \in {"nurse1", "recep1"}, c \in ConversationIds : claim_read(u, c)
    \/ \E u \in {"nurse1"} : claim_write(u)
    \/ \E u \in {"admin1", "nurse1"}, c \in ConversationIds, r \in {"recep1"} :
           reassign_conversation(u, c, r)
    \/ \E u \in {"nurse1", "pat1"}, c \in ConversationIds,
          st \in {"new", "active", "booked", "closed"} :
           update_conversation_status(u, c, st)
    \/ \E u \in {"pat1", "recep1"}, p \in {"pat1"}, cl \in {"nurse1"},
          c \in ConversationIds, t \in BookingTimes, sv \in {"teleconsultation"},
          bt \in {"cash"} :
           create_booking(u, p, cl, c, t, sv, bt)
    \/ \E u \in {"pat2", "recep1"}, b \in BookingIds : cancel_booking(u, b)

SpecConversation == Init /\ [][NextConversation]_vars

\* Cancellation across records: bookings with their appointment, invoice and
\* conversation, and both ways of cancelling.
NextCascade ==
    \/ \E u \in {"pat1"} : create_conversation(u)
    \/ \E u \in {"pat1", "recep1"}, p \in {"pat1"}, cl \in {"nurse1"},
          c \in ConversationIds \cup {NULL}, t \in {13}, sv \in {"teleconsultation"},
          bt \in BookedBilling :
           create_booking(u, p, cl, c, t, sv, bt)
    \/ \E u \in {"pat1", "pat2", "nurse1"}, a \in AppointmentIds,
          reason \in {"patient_request"} :
           cancel_appointment_with_reason(u, a, reason)
    \/ \E u \in {"pat2", "recep1"}, b \in BookingIds : cancel_booking(u, b)

SpecCascade == Init /\ [][NextCascade]_vars

\* Failing stores: the booking handlers while one table's requests fail.
NextFailure ==
    \/ \E table \in SupabaseTables, raises \in BOOLEAN : store_fails(table, raises)
    \/ store_recovers
    \/ \E u \in {"pat1"} : create_conversation(u)
    \/ \E u \in {"pat1", "recep1"}, p \in {"pat1"}, cl \in {"nurse1"},
          c \in ConversationIds \cup {NULL}, t \in {13}, sv \in {"teleconsultation"},
          bt \in BookedBilling :
           /\ Len(appointments) < MaxAppointments + MaxBookings
           /\ create_booking(u, p, cl, c, t, sv, bt)
    \/ \E u \in {"pat2", "recep1"}, b \in BookingIds : cancel_booking(u, b)

SpecFailure == Init /\ [][NextFailure]_vars

\* Authorization: the ten mutating operations, each called by users it admits,
\* by users it refuses and without a token.
NextAuthorization ==
    \/ \E u \in {"pat1"} : create_conversation(u)
    \/ \E u \in {"nurse1", "recep1", Anonymous}, c \in ConversationIds :
           get_current_user(u, "claim_conversation", c, claim_read(u, c))
    \/ \E u \in {"nurse1"} : claim_write(u)
    \/ \E u \in {"admin1", "nurse1", Anonymous}, c \in ConversationIds, r \in {"nurse1"} :
           get_current_user(u, "reassign_conversation", c, reassign_conversation(u, c, r))
    \/ \E u \in {"nurse1", "pat1", Anonymous}, c \in ConversationIds, st \in {"closed"} :
           get_current_user(u, "update_conversation_status", c,
                            update_conversation_status(u, c, st))
    \/ \E u \in {"pat1", "pat2", "doc1", Anonymous}, c \in ConversationIds :
           get_current_user(u, "send_message", c, send_message(u, c))
    \/ \E u \in {"pat1", "recep1", Anonymous}, p \in {"pat1"}, cl \in {"nurse1"},
          c \in {NULL}, t \in {13}, sv \in {"teleconsultation"}, bt \in {"cash"} :
           get_current_user(u, "create_booking", NULL,
                            create_booking(u, p, cl, c, t, sv, bt))
    \/ \E u \in {"pat1", "recep1", Anonymous}, b \in BookingIds, st \in {"completed"},
          cl \in {NONE}, t \in {NULL} :
           get_current_user(u, "update_booking", b, update_booking(u, b, st, cl, t))
    \/ \E u \in {"pat1", "pat2", Anonymous}, b \in BookingIds :
           get_current_user(u, "cancel_booking", b, cancel_booking(u, b))
    \/ \E u \in {"pat1", "doc1", Anonymous}, a \in AppointmentIds,
          p \in {"pat1"}, ra \in {"follow_up"} :
           get_current_user(u, "create_triage_assessment", a, triage_check(u, a, p, ra))
    \/ \E u \in {"doc1"} : triage_insert(u)
    \/ \E u \in {"nurse1", "doc1", Anonymous}, t \in TriageIds,
          ra \in {"proceed_to_doctor"} :
           get_current_user(u, "update_triage_assessment", t,
                            update_triage_assessment(u, t, ra))
    \/ \E u \in {"pat1", "pat2", Anonymous}, a \in AppointmentIds,
          reason \in {"patient_request"} :
           get_current_user(u, "cancel_appointment_with_reason", a,
                            cancel_appointment_with_reason(u, a, reason))

SpecAuthorization == Init /\ [][NextAuthorization]_vars

\* ------------------------------------------------------------------ claims

\* C1 (claim exclusivity), as the spec states it: of the claim_conversation calls
\* on one conversation, however their read and write steps interleave, at most
\* one returns success.
C1_ClaimExclusivity ==
    \A c \in ConversationIds : Cardinality({u \in Users : <<u, c>> \in claimOk}) <= 1

\* C4 (cancellation propagation), as the spec states it: a successful
\* cancel_booking of a booking with a linked appointment, invoice and conversation
\* leaves all three cancelled or reverted: the appointment and the invoice
\* cancelled, and the conversation read through get_conversation active with no
\* booking_id and exactly one more message, a system message.
C4_CancellationPropagation ==
    [][\A b \in DOMAIN bookings :
         LET booking == bookings[b]
             c == booking.conversation_id
         IN (/\ resp'.op = "cancel_booking" /\ resp'.target = b /\ resp'.code = 200
             /\ booking.appointment_id # NULL
             /\ booking.invoice_id # NULL
             /\ c \in DOMAIN conversations)
            => /\ bookings'[b].status = "cancelled"
               /\ appointments'[booking.appointment_id].status = "cancelled"
               /\ invoices'[booking.invoice_id].status = "cancelled"
               /\ get_conversation(c)'.status = "active"
               /\ get_conversation(c)'.booking_id = NULL
               /\ get_messages(c)' = Append(get_messages(c), system_message(c))]_vars

\* C6 (idempotent cancel of a booking), as the spec states it: cancel_booking on
\* a booking that is already cancelled or completed is refused and changes no
\* stored record and appends no message.
C6_CancelBookingIdempotent ==
    [][\A b \in DOMAIN bookings :
         (/\ resp'.op = "cancel_booking" /\ resp'.target = b
          /\ bookings[b].status \in {"cancelled", "completed"})
         => (resp'.code # 200 /\ UNCHANGED <<mongoVars, supabaseVars>>)]_vars

\* C8 (scenario A), as the spec states it: create_booking of a cash
\* teleconsultation for a claimed conversation leaves the booking confirmed, its
\* new appointment of kind scheduled, an invoice of 260 on the booking, and the
\* conversation read through get_conversation booked with the booking's id.
C8_ScenarioA ==
    [][\A c \in DOMAIN conversations :
         LET b == resp'.target
             booking == bookings'[b]
         IN (/\ resp'.op = "create_booking" /\ resp'.code = 200
             /\ booking.service_type = "teleconsultation"
             /\ booking.billing_type = "cash"
             /\ FEE_SCHEDULE = FeeScheduleSource
             /\ booking.conversation_id = c
             /\ conversations[c].receptionist_id # NONE)
            => /\ booking.status = "confirmed"
               /\ booking.appointment_id = Len(appointments')
               /\ Len(appointments') = Len(appointments) + 1
               /\ appointments'[booking.appointment_id].booking_type = "scheduled"
               /\ booking.invoice_id \in DOMAIN invoices'
               /\ invoices'[booking.invoice_id].amount = 260
               /\ invoices'[booking.invoice_id].booking_id = b
               /\ get_conversation(c)'.status = "booked"
               /\ get_conversation(c)'.booking_id = b]_vars

C10_InvoiceAmountImmutable ==
    [][\A i \in DOMAIN invoices :
         i \in DOMAIN invoices' /\ invoices'[i].amount = invoices[i].amount]_vars

\* C10's case: the fee table changed after an invoice was issued, and the invoice
\* was then marked paid or cancelled.
C10_Witness ==
    \E i \in DOMAIN invoices :
        /\ invoices[i].amount # FEE_SCHEDULE[invoices[i].service_type]
        /\ invoices[i].status \in {"paid", "cancelled"}

\* C2: at most one triage record references any appointment, also when two
\* create_triage_assessment calls for it interleave their existence check and
\* their insert; a call that reaches its insert when the appointment already
\* has a triage record fails with a client error (Conflict, or Forbidden for a
\* caller who may not triage), never succeeds or ends in a server error, and
\* writes nothing.
C2_TriageUniqueness ==
    /\ [](\A a \in DOMAIN appointments :
            Cardinality({t \in DOMAIN nurse_triages :
                            nurse_triages[t].appointment_id = a}) <= 1)
    /\ [][\A a \in DOMAIN appointments :
            (/\ resp'.op = "create_triage_assessment"
             /\ resp'.target = a
             /\ resp'.code # NULL
             /\ \E t \in DOMAIN nurse_triages : nurse_triages[t].appointment_id = a)
            => (resp'.code \in {400, 403} /\ UNCHANGED supabaseVars)]_vars

\* C3: a clinician's queue over a table that holds a pending emergency, a
\* pending walk-in of the clinician and a pending scheduled item of the
\* clinician today lists every emergency before every walk-in and every walk-in
\* before every scheduled item.
C3_PriorityOrdering ==
    \A u \in Users :
        LET queue == get_today_queue(u)
            kind(i) == appointments[queue[i]].booking_type
            pending(k, cl) == \E a \in DOMAIN appointments :
                /\ appointments[a].status = "pending"
                /\ appointments[a].booking_type = k
                /\ appointments[a].clinician_id \in cl
        IN (/\ get_user_role(u) \in {"nurse", "doctor", "admin"}
            /\ pending("emergency", {u, NONE})
            /\ pending("walk_in", {u})
            /\ \E a \in DOMAIN appointments :
                  /\ appointments[a].status = "pending"
                  /\ appointments[a].booking_type = "scheduled"
                  /\ appointments[a].clinician_id = u
                  /\ appointments[a].scheduled_at \div 24 = now \div 24)
           => \A i, j \in 1..Len(queue) :
                  i < j => /\ kind(j) = "emergency" => kind(i) = "emergency"
                           /\ kind(i) = "scheduled" => kind(j) = "scheduled"

\* C5: every appointment whose status is confirmed has a triage record with
\* ready_for_doctor true.
C5_TriageGate ==
    \A a \in DOMAIN appointments :
        appointments[a].status = "confirmed"
        => \E t \in DOMAIN nurse_triages :
               /\ nurse_triages[t].appointment_id = a
               /\ nurse_triages[t].ready_for_doctor

\* C7: cancel_appointment_with_reason and delete_appointment applied to an
\* appointment that is already cancelled or completed fail and leave the
\* appointment's row, cancellation fields included, as it was.
C7_CancelAppointmentIdempotent ==
    [][\A a \in DOMAIN appointments :
        (/\ resp'.op \in {"cancel_appointment_with_reason", "delete_appointment"}
         /\ resp'.target = a
         /\ appointments[a].status \in {"cancelled", "completed"})
        => (resp'.code # 200 /\ appointments'[a] = appointments[a])]_vars

\* C11: the ready-for-doctor list holds exactly the triage records with
\* ready_for_doctor true whose appointment is neither completed nor cancelled;
\* a follow_up triage is never in it; and a triage whose appointment is
\* completed or cancelled is absent from the next read and every later one.
C11_ReadyForDoctorMembership ==
    /\ [](\A t \in DOMAIN nurse_triages :
            LET listed == \E i \in 1..Len(get_patients_ready_for_doctor) :
                              get_patients_ready_for_doctor[i] = t
                a == nurse_triages[t].appointment_id
            IN /\ nurse_triages[t].recommended_action = "follow_up" => ~listed
               /\ listed <=> /\ nurse_triages[t].ready_for_doctor
                              /\ a \in DOMAIN appointments
                              /\ appointments[a].status \notin {"completed", "cancelled"})
    /\ [][\A t \in DOMAIN nurse_triages :
            LET a == nurse_triages[t].appointment_id
            IN (a \in DOMAIN appointments
                /\ appointments[a].status \in {"completed", "cancelled"})
               => ~\E i \in 1..Len(get_patients_ready_for_doctor') :
                      get_patients_ready_for_doctor'[i] = t]_vars

\* C12: when two pending walk-ins of a clinician were created concurrently
\* (both read the same queue position) and a pending emergency was created
\* after them, the clinician's queue contains the emergency and lists it first.
C12_ScenarioD ==
    \A u \in Users : \A w1, w2, e \in DOMAIN appointments :
        (/\ get_user_role(u) \in {"nurse", "doctor", "admin"}
         /\ w1 < w2 /\ w2 < e
         /\ \A w \in {w1, w2} : /\ appointments[w].booking_type = "walk_in"
                                 /\ appointments[w].clinician_id = u
                                 /\ appointments[w].status = "pending"
         /\ appointments[w1].queue_position = appointments[w2].queue_position
         /\ appointments[e].booking_type = "emergency"
         /\ appointments[e].status = "pending")
        => /\ get_today_queue(u) # <<>>
           /\ get_today_queue(u)[1] = e

C14_ReceptionistOnlyWhenNotNew ==
    \A c \in DOMAIN conversations :
        get_conversation(c).receptionist_id # NONE => get_conversation(c).status # "new"

\* C15: every appointment whose booking type is emergency has queue position 0
\* and priority emergency.
C15_EmergencyInvariant ==
    \A a \in DOMAIN appointments :
        appointments[a].booking_type = "emergency"
        => /\ appointments[a].queue_position = 0
           /\ appointments[a].priority = "emergency"

\* An emergency created after another emergency and a walk-in, and updated since.
C15_Witness ==
    \E e1, w, e2 \in DOMAIN appointments :
        /\ e1 < e2 /\ w < e2
        /\ appointments[e1].booking_type = "emergency"
        /\ appointments[w].booking_type = "walk_in"
        /\ appointments[e2].booking_type = "emergency"
        /\ appointments[e2].status = "completed"

\* C16: a successful cancel_appointment_with_reason on an appointment that a
\* booking references cancels that booking and its invoice as cancel_booking
\* does; no booking with a status other than cancelled references an
\* appointment cancelled through cancel_appointment_with_reason.
C16_CancelAppointmentCascade ==
    /\ [](\A b \in DOMAIN bookings :
            LET a == bookings[b].appointment_id
            IN (/\ a \in DOMAIN appointments
                /\ appointments[a].status = "cancelled"
                /\ appointments[a].cancelled_by # NONE)
               => bookings[b].status = "cancelled")
    /\ [][\A b \in DOMAIN bookings :
            (/\ resp'.op = "cancel_appointment_with_reason"
             /\ resp'.code = 200
             /\ resp'.target = bookings[b].appointment_id)
            => /\ bookings'[b].status = "cancelled"
               /\ bookings[b].invoice_id # NULL
                  => invoices'[bookings[b].invoice_id].status = "cancelled"]_vars

\* C17 (cancelBooking under partial failure), as the spec states it: when a
\* cancel_booking that passes its checks cannot reach the store of one of the
\* booking's linked records, the booking is cancelled, the linked appointment and
\* invoice whose stores answer are cancelled too, and the response reports the
\* failure.
C17_CancelForwardProgress ==
    [][\A b \in DOMAIN bookings :
          (/\ resp'.op = "cancel_booking" /\ resp'.target = b
           /\ resp'.code \notin {403, 404}
           /\ outage.raises
           /\ \/ outage.table = "appointments" /\ bookings[b].appointment_id # NULL
              \/ outage.table = "invoices" /\ bookings[b].invoice_id # NULL
              \/ outage.table = "chat_conversations" /\ bookings[b].conversation_id # NULL)
          => /\ bookings'[b].status = "cancelled"
             /\ (outage.table # "appointments"
                    /\ bookings[b].appointment_id \in DOMAIN appointments)
                 => appointments'[bookings[b].appointment_id].status = "cancelled"
             /\ (outage.table # "invoices" /\ bookings[b].invoice_id \in DOMAIN invoices)
                 => invoices'[bookings[b].invoice_id].status = "cancelled"
             /\ resp'.code # 200]_vars

\* C18 (no partial commit), as the spec states it: a create_booking that ends
\* with an error leaves no appointment, booking, invoice, message or conversation
\* change in the stores.
C18_NoPartialCommit ==
    [][(resp'.op = "create_booking" /\ resp'.code # 200)
          => UNCHANGED <<mongoVars, supabaseVars>>]_vars

\* C19 (at most one invoice per booking), as the spec states it: no two invoices
\* carry the same booking_id, and a booking's invoice_id, when set, names an
\* invoice whose booking_id is that booking.
C19_OneInvoicePerBooking ==
    /\ \A i, j \in DOMAIN invoices :
           invoices[i].booking_id = invoices[j].booking_id => i = j
    /\ \A b \in DOMAIN bookings :
           bookings[b].invoice_id # NULL
           => /\ bookings[b].invoice_id \in DOMAIN invoices
              /\ invoices[bookings[b].invoice_id].booking_id = b

\* C20 (authorization before mutation): a call of claim, reassign, setStatus,
\* sendMessage, createBooking, updateBooking, cancelBooking, createTriage,
\* updateTriage or cancelAppointment that is answered 401 or 403 leaves every
\* document and row as it was.
C20_AuthorizationBeforeMutation ==
    [][resp'.code \in {401, 403} => UNCHANGED <<mongoVars, supabaseVars>>]_vars

\* nurse1, who did not write the triage record, has been refused its update.
C20_Witness ==
    /\ resp.op = "update_triage_assessment"
    /\ resp.code = 403
    /\ resp.target \in DOMAIN nurse_triages
    /\ nurse_triages[resp.target].nurse_id = "doc1"

\* C21 (conversation state machine), as the spec states it: a conversation's
\* status changes only along new -> active -> booking_pending -> booked ->
\* consultation_complete -> closed, or from booked back to active.
C21_ConversationTransitions ==
    [][\A c \in DOMAIN conversations :
          conversations'[c].status # conversations[c].status
          => <<conversations[c].status, conversations'[c].status>> \in
                 {<<"new", "active">>, <<"active", "booking_pending">>,
                  <<"booking_pending", "booked">>, <<"booked", "consultation_complete">>,
                  <<"consultation_complete", "closed">>, <<"booked", "active">>}]_vars

\* C22 (appointment terminal states), as the spec states it: an appointment
\* whose status is completed or cancelled keeps that status in every later step.
C22_AppointmentTerminal ==
    [][\A a \in DOMAIN appointments :
          appointments[a].status \in {"completed", "cancelled"}
          => /\ a \in DOMAIN appointments'
             /\ appointments'[a].status = appointments[a].status]_vars

\* C23 (queue membership), as the spec states it: a clinician's queue holds
\* exactly the clinician's appointments whose status is pending or confirmed.
C23_QueueMembership ==
    \A u \in {"nurse1", "doc1"} : \A a \in DOMAIN appointments :
        (appointments[a].clinician_id = u
            /\ appointments[a].status \in {"pending", "confirmed"})
        <=> \E k \in DOMAIN get_today_queue(u) : get_today_queue(u)[k] = a

\* C24 (updateBooking propagation), as the spec states it: a successful
\* update_booking with status cancelled leaves the booking's appointment and
\* invoice cancelled, as cancel_booking does.
C24_UpdateBookingPropagation ==
    [][\A b \in DOMAIN bookings :
          (/\ resp'.op = "update_booking" /\ resp'.target = b /\ resp'.code = 200
           /\ bookings[b].status # "cancelled"
           /\ bookings'[b].status = "cancelled")
          => /\ bookings[b].appointment_id \in DOMAIN appointments
                => appointments'[bookings[b].appointment_id].status = "cancelled"
             /\ bookings[b].invoice_id \in DOMAIN invoices
                => invoices'[bookings[b].invoice_id].status = "cancelled"]_vars

\* C25 (ready flag follows the action): every triage record has
\* ready_for_doctor = (recommended_action = proceed_to_doctor), and a successful
\* update_triage_assessment that leaves the action as it was leaves the flag as
\* it was.
C25_ReadyFollowsAction ==
    /\ [](\A t \in DOMAIN nurse_triages :
            nurse_triages[t].ready_for_doctor
                = (nurse_triages[t].recommended_action = "proceed_to_doctor"))
    /\ [][\A t \in DOMAIN nurse_triages :
            (resp'.op = "update_triage_assessment"
                /\ nurse_triages'[t].recommended_action = nurse_triages[t].recommended_action)
            => nurse_triages'[t].ready_for_doctor = nurse_triages[t].ready_for_doctor]_vars

\* A successful update_triage_assessment of a record whose action is
\* proceed_to_doctor and whose flag is set.
C25_Witness ==
    /\ resp.op = "update_triage_assessment" /\ resp.code = 200
    /\ resp.target \in DOMAIN nurse_triages
    /\ nurse_triages[resp.target].recommended_action = "proceed_to_doctor"
    /\ nurse_triages[resp.target].ready_for_doctor

C27_LateCancellationFlag ==
    [][\A a \in DOMAIN appointments :
          (resp'.op = "cancel_appointment_with_reason" /\ resp'.code = 200
              /\ resp'.target = a)
          => /\ appointments'[a].status = "cancelled"
             /\ appointments'[a].late_cancellation
                    = (IF appointments[a].scheduled_at - now < 2 THEN "true" ELSE "false")
             /\ appointments'[a].cancellation_reason # NONE
             /\ appointments'[a].cancelled_by # NONE
             /\ appointments'[a].cancelled_at = now]_vars

\* C28 (queue position assignment), as the spec states it: a walk-in is stored
\* with the number of walk-ins created earlier on its day plus 1, and an
\* emergency with position 0.
C28_QueuePositionAssignment ==
    /\ [](\A e \in DOMAIN appointments :
            appointments[e].booking_type = "emergency" => appointments[e].queue_position = 0)
    /\ [][(resp'.op = "create_walkin_booking" /\ resp'.code = 200)
            => LET w == appointments'[Len(appointments')]
               IN w.queue_position =
                      Cardinality({a \in DOMAIN appointments :
                          /\ appointments[a].booking_type = "walk_in"
                          /\ appointments[a].created_at \div 24 = w.created_at \div 24}) + 1]_vars

\* C30 (walk-in positions unique), as the spec states it: the walk-ins of one
\* day have pairwise distinct queue positions, however the count and the insert
\* of concurrent requests interleave.
C30_WalkinPositionsUnique ==
    \A a, b \in DOMAIN appointments :
        (/\ a # b
         /\ appointments[a].booking_type = "walk_in"
         /\ appointments[b].booking_type = "walk_in"
         /\ appointments[a].created_at \div 24 = appointments[b].created_at \div 24)
        => appointments[a].queue_position # appointments[b].queue_position

\* C29 (invoice payment fields), as the spec states it: a step writes an
\* invoice's payment_reference or paid_at only when it is an
\* update_invoice_status that leaves the invoice paid.
C29_PaymentFieldsOnlyWhenPaid ==
    [][\A i \in DOMAIN invoices :
          (\/ invoices'[i].payment_reference # invoices[i].payment_reference
           \/ invoices'[i].paid_at # invoices[i].paid_at)
          => /\ resp'.op = "update_invoice_status"
             /\ invoices'[i].status = "paid"]_vars

====
